---- MODULE Spec2Model ----
(***************************************************************************)
(* Model of the two utilities of the repository:                           *)
(*   auto1.py       JournalGenerator: load_position_data,                  *)
(*                  calculate_adjustments, generate_journal_entries        *)
(*   pdf_merger.py  merge_pdfs                                             *)
(* A DataFrame is a record [columns, rows]: a set of column names and a    *)
(* sequence of rows, each row a function from the column names to values.  *)
(* Quantities and values are integers; file names are sequences of         *)
(* one-character strings so that suffix extraction and lower-casing are    *)
(* computed, not assumed.                                                  *)
(***************************************************************************)
EXTENDS Integers, Sequences, FiniteSets, TLC

VARIABLES
    pc,                 \* position of the journal workflow
    error,              \* name of the exception that ended the workflow, or "None"
    current_file,       \* the file holding the current snapshot
    previous_file,      \* None, or Some(file holding the previous snapshot)
    current_positions,  \* DataFrame returned by load_position_data(current_file)
    previous_positions, \* None, or Some(DataFrame of the previous snapshot)
    merged,             \* the local `merged` of calculate_adjustments
    adjustments,        \* DataFrame returned by calculate_adjustments
    journal,            \* rows of journal_df returned by generate_journal_entries
    pdf_files,          \* argument of merge_pdfs: sequence of file names
    fs_exists,          \* file names for which Path.exists() is true
    fs_valid,           \* file names PdfMerger.append can read
    write_ok,           \* whether PdfMerger.write(output_file) succeeds
    idx,                \* position of the for loop of merge_pdfs
    merger,             \* files appended to the PdfMerger so far
    output_file,        \* None, or Some(content written to output_file)
    result,             \* return value of merge_pdfs: "None" until it returns
    mpc                 \* position of merge_pdfs

journalVars == <<pc, error, current_file, previous_file, current_positions,
                 previous_positions, merged, adjustments, journal>>
pdfVars == <<pdf_files, fs_exists, fs_valid, write_ok, idx, merger, output_file,
             result, mpc>>
vars == <<journalVars, pdfVars>>

----------------------------------------------------------------------------
(* Bounds of the model *)

\* total number of rows over the current and the previous snapshot
MaxRows == 3
\* number of ChangeRecords handed directly to generate_journal_entries
MaxChanges == 2
\* number of paths handed to merge_pdfs
MaxFiles == 3
\* number of rows of a file whose columns are arbitrary
MaxFileRows == 1

----------------------------------------------------------------------------
(* Generic helpers *)

None == <<>>
Some(v) == <<v>>

Abs(n) == IF n < 0 THEN -n ELSE n

Ok(v) == [ok |-> TRUE, value |-> Some(v), error |-> "None"]
Raise(e) == [ok |-> FALSE, value |-> None, error |-> e]

RECURSIVE Flatten(_)
Flatten(ss) == IF ss = <<>> THEN <<>> ELSE Head(ss) \o Flatten(Tail(ss))

SeqsUpTo(S, n) == UNION {[1..k -> S] : k \in 0..n}

----------------------------------------------------------------------------
(* pathlib: Path(p).suffix and str.lower() *)

UpperCase == <<"A","B","C","D","E","F","G","H","I","J","K","L","M",
               "N","O","P","Q","R","S","T","U","V","W","X","Y","Z">>
LowerCase == <<"a","b","c","d","e","f","g","h","i","j","k","l","m",
               "n","o","p","q","r","s","t","u","v","w","x","y","z">>

LowerChar(c) ==
    IF \E i \in 1..Len(UpperCase) : UpperCase[i] = c
    THEN LowerCase[CHOOSE i \in 1..Len(UpperCase) : UpperCase[i] = c]
    ELSE c

Lower(s) == [i \in 1..Len(s) |-> LowerChar(s[i])]

\* Path.suffix: the part of the name from its last dot, empty when the name
\* has no dot, starts with its only dot, or ends with a dot
Suffix(name) ==
    LET dots == {i \in 1..Len(name) : name[i] = "."} IN
    IF dots = {} THEN <<>>
    ELSE LET last == CHOOSE i \in dots : \A j \in dots : j <= i IN
         IF last = 1 \/ last = Len(name) THEN <<>>
         ELSE SubSeq(name, last, Len(name))

DotCsv == <<".","c","s","v">>
DotXlsx == <<".","x","l","s","x">>
DotXls == <<".","x","l","s">>
DotPdf == <<".","p","d","f">>

----------------------------------------------------------------------------
(* DataFrames *)

RequiredColumns == {"security_id", "account", "quantity", "value"}
KeyCols == {"security_id", "account"}

EmptyFrame == [columns |-> {}, rows |-> <<>>]

Get(row, c, default) == IF c \in DOMAIN row THEN row[c] ELSE default

\* lexicographic order of the (security_id, account) pairs of the model
KeyOrder == << <<"SEC1","ACC1">>, <<"SEC1","ACC2">>, <<"SEC2","ACC1">>,
               <<"SEC2","ACC2">> >>

KeyOf(row) == <<row.security_id, row.account>>

RowsWithKey(df, k) == SelectSeq(df.rows, LAMBDA r : KeyOf(r) = k)

\* a column of a frame: df[c]
Column(df, c) == [i \in 1..Len(df.rows) |-> df.rows[i][c]]

\* df[c] = series, one value per row
WithColumn(df, c, series) ==
    [columns |-> df.columns \cup {c},
     rows |-> [i \in 1..Len(df.rows) |->
                 [n \in DOMAIN df.rows[i] \cup {c} |->
                     IF n = c THEN series[i] ELSE df.rows[i][n]]]]

\* df[mask], mask one boolean per row
Filter(df, mask) ==
    LET kept == SelectSeq([i \in 1..Len(df.rows) |-> i], LAMBDA i : mask[i])
    IN  [columns |-> df.columns,
         rows |-> [j \in 1..Len(kept) |-> df.rows[kept[j]]]]

----------------------------------------------------------------------------
(* auto1.py: load_position_data *)

load_position_data(file) ==
    LET sfx == Lower(Suffix(file.name)) IN
    IF sfx = DotCsv
    THEN \* pd.read_csv raises EmptyDataError on a file without a header line
         IF file.columns = {}
         THEN Raise("EmptyDataError")
         ELSE Ok([columns |-> file.columns, rows |-> file.rows])
    ELSE IF sfx \in {DotXlsx, DotXls}
    THEN Ok([columns |-> file.columns, rows |-> file.rows])
    ELSE Raise("ValueError")

----------------------------------------------------------------------------
(* auto1.py: calculate_adjustments *)

\* name of a non-key column of one side in the merged frame
SuffixedName(c, other, sfx) == IF c \in other.columns THEN c \o sfx ELSE c

\* the columns taken from the rows present instead of from the frames
MergedColumnsFromRows(left, right) ==
    KeyCols
    \cup {SuffixedName(c, right, "_current") :
             c \in UNION {DOMAIN left.rows[i] : i \in 1..Len(left.rows)} \ KeyCols}
    \cup {SuffixedName(c, left, "_previous") :
             c \in UNION {DOMAIN right.rows[i] : i \in 1..Len(right.rows)} \ KeyCols}

MergedColumns(left, right) ==
    KeyCols
    \cup {SuffixedName(c, right, "_current") : c \in left.columns \ KeyCols}
    \cup {SuffixedName(c, left, "_previous") : c \in right.columns \ KeyCols}

\* one row of the outer join; l and r are None or Some(row); fill replaces
\* the missing side (fillna)
MergedRow(l, r, left, right, fill) ==
    [n \in MergedColumns(left, right) |->
        IF n \in KeyCols
        THEN IF l # None THEN l[1][n] ELSE r[1][n]
        ELSE IF \E c \in left.columns \ KeyCols : SuffixedName(c, right, "_current") = n
        THEN IF l # None
             THEN l[1][CHOOSE c \in left.columns \ KeyCols :
                           SuffixedName(c, right, "_current") = n]
             ELSE fill
        ELSE IF r # None
             THEN r[1][CHOOSE c \in right.columns \ KeyCols :
                           SuffixedName(c, left, "_previous") = n]
             ELSE fill]

\* how='left': a key the left side lacks yields no row
JoinKeyLeft(left, right, k, fill) ==
    LET ls == RowsWithKey(left, k)
        rs == RowsWithKey(right, k)
    IN  IF rs = <<>>
        THEN [i \in 1..Len(ls) |-> MergedRow(Some(ls[i]), None, left, right, fill)]
        ELSE Flatten([i \in 1..Len(ls) |->
                        [j \in 1..Len(rs) |->
                            MergedRow(Some(ls[i]), Some(rs[j]), left, right, fill)]])

\* the rows the outer join yields for one key: the pairs of the left and
\* right rows with that key, or the rows of the only side that has it
JoinKey(left, right, k, fill) ==
    LET ls == RowsWithKey(left, k)
        rs == RowsWithKey(right, k)
    IN  IF rs = <<>>
        THEN [i \in 1..Len(ls) |-> MergedRow(Some(ls[i]), None, left, right, fill)]
        ELSE IF ls = <<>>
        THEN [j \in 1..Len(rs) |-> MergedRow(None, Some(rs[j]), left, right, fill)]
        ELSE Flatten([i \in 1..Len(ls) |->
                        [j \in 1..Len(rs) |->
                            MergedRow(Some(ls[i]), Some(rs[j]), left, right, fill)]])

\* pd.merge(left, right, on=['security_id', 'account'], how='outer',
\*          suffixes=('_current', '_previous')).fillna(fill)
MergeOuter(left, right, fill) ==
    [columns |-> MergedColumns(left, right),
     rows |-> Flatten([i \in 1..Len(KeyOrder) |->
                          JoinKey(left, right, KeyOrder[i], fill)])]

\* the operands of the subtraction exchanged
QuantityChangeReversed(m) ==
    [i \in 1..Len(m.rows) |-> m.rows[i].quantity_previous - m.rows[i].quantity_current]

QuantityChange(m) ==
    [i \in 1..Len(m.rows) |-> m.rows[i].quantity_current - m.rows[i].quantity_previous]
ValueChange(m) ==
    [i \in 1..Len(m.rows) |-> m.rows[i].value_current - m.rows[i].value_previous]

\* the mask testing the quantity alone
HasQuantityChange(m) ==
    [i \in 1..Len(m.rows) |-> m.rows[i].quantity_change # 0]

\* the mask of "Keep only records with changes"
HasChange(m) ==
    [i \in 1..Len(m.rows) |->
        m.rows[i].quantity_change # 0 \/ m.rows[i].value_change # 0]

\* result: [ok, error, merged, adjustments]
CalcResult(okv, err, m, adj) ==
    [ok |-> okv, error |-> err, merged |-> m, adjustments |-> adj]

\* the branch taken when previous_positions is given
changes_against_previous(current, prev) ==
    IF ~(KeyCols \subseteq current.columns /\ KeyCols \subseteq prev.columns)
    THEN CalcResult(FALSE, "KeyError", EmptyFrame, EmptyFrame)
    ELSE LET m == MergeOuter(current, prev, 0) IN
         IF ~({"quantity_current", "quantity_previous"} \subseteq m.columns)
         THEN CalcResult(FALSE, "KeyError", m, EmptyFrame)
         ELSE LET mq == WithColumn(m, "quantity_change", QuantityChange(m)) IN
              IF ~({"value_current", "value_previous"} \subseteq m.columns)
              THEN CalcResult(FALSE, "KeyError", mq, EmptyFrame)
              ELSE LET mv == WithColumn(mq, "value_change", ValueChange(mq)) IN
                   CalcResult(TRUE, "None", mv, Filter(mv, HasChange(mv)))

\* the else branch with the mask of the other branch applied to it
all_positions_new_changed(current) ==
    IF "quantity" \notin current.columns
    THEN CalcResult(FALSE, "KeyError", EmptyFrame, EmptyFrame)
    ELSE LET aq == WithColumn(current, "quantity_change", Column(current, "quantity")) IN
         IF "value" \notin current.columns
         THEN CalcResult(FALSE, "KeyError", EmptyFrame, EmptyFrame)
         ELSE CalcResult(TRUE, "None", EmptyFrame,
                         LET av == WithColumn(aq, "value_change", Column(aq, "value"))
                         IN  Filter(av, HasChange(av)))

\* the else branch: "If no previous data, all current positions are new"
all_positions_new(current) ==
    IF "quantity" \notin current.columns
    THEN CalcResult(FALSE, "KeyError", EmptyFrame, EmptyFrame)
    ELSE LET aq == WithColumn(current, "quantity_change", Column(current, "quantity")) IN
         IF "value" \notin current.columns
         THEN CalcResult(FALSE, "KeyError", EmptyFrame, EmptyFrame)
         ELSE CalcResult(TRUE, "None", EmptyFrame,
                         WithColumn(aq, "value_change", Column(aq, "value")))

calculate_adjustments(current, previous) ==
    IF previous # None
    THEN changes_against_previous(current, previous[1])
    ELSE all_positions_new(current)

----------------------------------------------------------------------------
(* auto1.py: generate_journal_entries *)

SecuritiesBorrowed == "Securities Borrowed"
PayableForSecurities == "Payable for Securities"

\* the branch chosen by the sign of value_change
RowEntriesByValueSign(row, date) ==
    LET security_id == Get(row, "security_id",
                           Get(row, "security_id_current", "UNKNOWN"))
        account == Get(row, "account", Get(row, "account_current", "UNKNOWN"))
        quantity_change == row.quantity_change
        value_change == row.value_change
    IN  IF value_change > 0
        THEN << [date |-> date,
                 security_id |-> security_id,
                 account |-> account,
                 debit_account |-> SecuritiesBorrowed,
                 credit_account |-> PayableForSecurities,
                 quantity |-> Abs(quantity_change),
                 amount |-> Abs(value_change),
                 description |-> "Borrow securities " \o security_id] >>
        ELSE IF value_change < 0
        THEN << [date |-> date,
                 security_id |-> security_id,
                 account |-> account,
                 debit_account |-> PayableForSecurities,
                 credit_account |-> SecuritiesBorrowed,
                 quantity |-> Abs(quantity_change),
                 amount |-> Abs(value_change),
                 description |-> "Return securities " \o security_id] >>
        ELSE << >>

\* a change of quantity zero booked as a borrow
RowEntriesZeroBorrows(row, date) ==
    LET security_id == Get(row, "security_id",
                           Get(row, "security_id_current", "UNKNOWN"))
        account == Get(row, "account", Get(row, "account_current", "UNKNOWN"))
        quantity_change == row.quantity_change
        value_change == row.value_change
    IN  IF quantity_change >= 0
        THEN << [date |-> date,
                 security_id |-> security_id,
                 account |-> account,
                 debit_account |-> SecuritiesBorrowed,
                 credit_account |-> PayableForSecurities,
                 quantity |-> Abs(quantity_change),
                 amount |-> Abs(value_change),
                 description |-> "Borrow securities " \o security_id] >>
        ELSE IF quantity_change < 0
        THEN << [date |-> date,
                 security_id |-> security_id,
                 account |-> account,
                 debit_account |-> PayableForSecurities,
                 credit_account |-> SecuritiesBorrowed,
                 quantity |-> Abs(quantity_change),
                 amount |-> Abs(value_change),
                 description |-> "Return securities " \o security_id] >>
        ELSE << >>

\* the amount booked with its sign
RowEntriesSignedAmount(row, date) ==
    LET security_id == Get(row, "security_id",
                           Get(row, "security_id_current", "UNKNOWN"))
        account == Get(row, "account", Get(row, "account_current", "UNKNOWN"))
        quantity_change == row.quantity_change
        value_change == row.value_change
    IN  IF quantity_change > 0
        THEN << [date |-> date,
                 security_id |-> security_id,
                 account |-> account,
                 debit_account |-> SecuritiesBorrowed,
                 credit_account |-> PayableForSecurities,
                 quantity |-> Abs(quantity_change),
                 amount |-> value_change,
                 description |-> "Borrow securities " \o security_id] >>
        ELSE IF quantity_change < 0
        THEN << [date |-> date,
                 security_id |-> security_id,
                 account |-> account,
                 debit_account |-> PayableForSecurities,
                 credit_account |-> SecuritiesBorrowed,
                 quantity |-> Abs(quantity_change),
                 amount |-> value_change,
                 description |-> "Return securities " \o security_id] >>
        ELSE << >>

\* the entries one row of adjustments appends
RowEntries(row, date) ==
    LET security_id == Get(row, "security_id",
                           Get(row, "security_id_current", "UNKNOWN"))
        account == Get(row, "account", Get(row, "account_current", "UNKNOWN"))
        quantity_change == row.quantity_change
        value_change == row.value_change
    IN  IF quantity_change > 0
        THEN << [date |-> date,
                 security_id |-> security_id,
                 account |-> account,
                 debit_account |-> SecuritiesBorrowed,
                 credit_account |-> PayableForSecurities,
                 quantity |-> Abs(quantity_change),
                 amount |-> Abs(value_change),
                 description |-> "Borrow securities " \o security_id] >>
        ELSE IF quantity_change < 0
        THEN << [date |-> date,
                 security_id |-> security_id,
                 account |-> account,
                 debit_account |-> PayableForSecurities,
                 credit_account |-> SecuritiesBorrowed,
                 quantity |-> Abs(quantity_change),
                 amount |-> Abs(value_change),
                 description |-> "Return securities " \o security_id] >>
        ELSE << >>

\* date_arg is None or Some(date); today is datetime.now() formatted
generate_journal_entries(adj, date_arg, today) ==
    LET date == IF date_arg = None THEN today ELSE date_arg[1] IN
    IF \E i \in 1..Len(adj.rows) :
          ~({"quantity_change", "value_change"} \subseteq DOMAIN adj.rows[i])
    THEN Raise("KeyError")
    ELSE Ok(Flatten([i \in 1..Len(adj.rows) |-> RowEntries(adj.rows[i], date)]))

----------------------------------------------------------------------------
(* pdf_merger.py: merge_pdfs *)

\* the extension tested before the existence of the file
merge_iteration_suffix_first(file, m, exists, valid) ==
    IF ~(Lower(Suffix(file)) = DotPdf)
    THEN [mpc |-> "loop", merger |-> m, result |-> "None"]
    ELSE IF file \notin exists
    THEN [mpc |-> "done", merger |-> m, result |-> "False"]
    ELSE IF file \in valid
    THEN [mpc |-> "loop", merger |-> Append(m, file), result |-> "None"]
    ELSE [mpc |-> "done", merger |-> m, result |-> "False"]

\* one iteration of "for pdf_file in pdf_files" on the file at position i:
\* the next position of merge_pdfs, the merger and the return value
merge_iteration(file, m, exists, valid) ==
    IF file \notin exists
    THEN [mpc |-> "done", merger |-> m, result |-> "False"]
    ELSE IF ~(Lower(Suffix(file)) = DotPdf)
    THEN [mpc |-> "loop", merger |-> m, result |-> "None"]
    ELSE IF file \in valid
    THEN [mpc |-> "loop", merger |-> Append(m, file), result |-> "None"]
    ELSE [mpc |-> "done", merger |-> m, result |-> "False"]

----------------------------------------------------------------------------
(* Inputs *)

CsvName == <<"p",".","c","s","v">>
FileNames == {CsvName, <<"p",".","X","L","S","X">>, <<"p",".","x","l","s">>,
              <<"p",".","t","x","t">>}

Keys == {<<"SEC1","ACC1">>, <<"SEC1","ACC2">>, <<"SEC2","ACC1">>}
Quantities == {0, 2}
Values == {0, 5}

PositionRows ==
    {[security_id |-> k[1], account |-> k[2], quantity |-> q, value |-> v] :
        k \in Keys, q \in Quantities, v \in Values}

ChangeRows ==
    {[security_id |-> k[1], account |-> k[2], quantity_change |-> q,
      value_change |-> v] : k \in Keys, q \in {-2, 0, 2}, v \in {-5, 0, 5}}

\* rows of a file that has only the columns cols
RowsOver(cols) == {[c \in cols |-> r[c]] : r \in PositionRows}

File(name, cols, rows) == [name |-> name, columns |-> cols, rows |-> rows]

DateArgs == {None, Some("2024-03-29")}
Today == "2024-04-01"

PdfNames == {<<"a",".","p","d","f">>, <<"b",".","P","D","F">>,
             <<"c",".","t","x","t">>, <<".","p","d","f">>}

----------------------------------------------------------------------------
(* Initial states *)

JournalIdle ==
    /\ pc = "idle"
    /\ error = "None"
    /\ current_file = File(CsvName, RequiredColumns, <<>>)
    /\ previous_file = None
    /\ current_positions = EmptyFrame
    /\ previous_positions = None
    /\ merged = EmptyFrame
    /\ adjustments = EmptyFrame
    /\ journal = <<>>

PdfIdle ==
    /\ pdf_files = <<>>
    /\ fs_exists = {}
    /\ fs_valid = {}
    /\ write_ok = TRUE
    /\ idx = 1
    /\ merger = <<>>
    /\ output_file = None
    /\ result = "None"
    /\ mpc = "idle"

JournalStart ==
    /\ pc = "load_current"
    /\ error = "None"
    /\ current_positions = EmptyFrame
    /\ previous_positions = None
    /\ merged = EmptyFrame
    /\ adjustments = EmptyFrame
    /\ journal = <<>>

\* well-formed snapshots: both files carry the four required columns
Init ==
    /\ current_file \in
         {File(CsvName, RequiredColumns, rows) :
             rows \in SeqsUpTo(PositionRows, MaxRows)}
    /\ previous_file \in
         {None} \cup
         {Some(File(CsvName, RequiredColumns, rows)) :
             rows \in SeqsUpTo(PositionRows, MaxRows - Len(current_file.rows))}
    /\ JournalStart
    /\ PdfIdle

\* files of any suffix with any subset of the required columns
InitSchema ==
    /\ current_file \in
         UNION {{File(n, cols, rows) : rows \in SeqsUpTo(RowsOver(cols), MaxFileRows)} :
                   n \in FileNames, cols \in SUBSET RequiredColumns}
    /\ previous_file \in
         {None} \cup
         UNION {{Some(File(n, cols, rows)) :
                    rows \in SeqsUpTo(RowsOver(cols), MaxFileRows)} :
                   n \in FileNames, cols \in SUBSET RequiredColumns}
    /\ JournalStart
    /\ PdfIdle

\* generate_journal_entries applied to any list of ChangeRecords
InitEntries ==
    /\ adjustments \in
         {[columns |-> {"security_id", "account", "quantity_change", "value_change"},
           rows |-> rows] : rows \in SeqsUpTo(ChangeRows, MaxChanges)}
    /\ pc = "journal"
    /\ error = "None"
    /\ current_file = File(CsvName, RequiredColumns, <<>>)
    /\ previous_file = None
    /\ current_positions = EmptyFrame
    /\ previous_positions = None
    /\ merged = EmptyFrame
    /\ journal = <<>>
    /\ PdfIdle

InitPdf ==
    /\ pdf_files \in SeqsUpTo(PdfNames, MaxFiles)
    /\ fs_exists \in SUBSET PdfNames
    /\ fs_valid \in SUBSET fs_exists
    /\ write_ok \in BOOLEAN
    /\ idx = 1
    /\ merger = <<>>
    /\ output_file = None
    /\ result = "None"
    /\ mpc = "loop"
    /\ JournalIdle

----------------------------------------------------------------------------
(* Actions of the journal workflow *)

LoadCurrent ==
    /\ pc = "load_current"
    /\ LET r == load_position_data(current_file) IN
       IF r.ok
       THEN /\ current_positions' = r.value[1]
            /\ pc' = IF previous_file = None THEN "calculate" ELSE "load_previous"
            /\ error' = error
       ELSE /\ current_positions' = current_positions
            /\ pc' = "error"
            /\ error' = r.error
    /\ UNCHANGED <<current_file, previous_file, previous_positions, merged,
                   adjustments, journal, pdfVars>>

LoadPrevious ==
    /\ pc = "load_previous"
    /\ LET r == load_position_data(previous_file[1]) IN
       IF r.ok
       THEN /\ previous_positions' = r.value
            /\ pc' = "calculate"
            /\ error' = error
       ELSE /\ previous_positions' = previous_positions
            /\ pc' = "error"
            /\ error' = r.error
    /\ UNCHANGED <<current_file, previous_file, current_positions, merged,
                   adjustments, journal, pdfVars>>

CalculateAdjustments ==
    /\ pc = "calculate"
    /\ LET r == calculate_adjustments(current_positions, previous_positions) IN
       /\ merged' = r.merged
       /\ adjustments' = r.adjustments
       /\ error' = r.error
       /\ pc' = IF r.ok THEN "journal" ELSE "error"
    /\ UNCHANGED <<current_file, previous_file, current_positions,
                   previous_positions, journal, pdfVars>>

GenerateJournalEntries ==
    /\ pc = "journal"
    /\ \E date_arg \in DateArgs :
         LET r == generate_journal_entries(adjustments, date_arg, Today) IN
         IF r.ok
         THEN /\ journal' = r.value[1]
              /\ pc' = "done"
              /\ error' = error
         ELSE /\ journal' = journal
              /\ pc' = "error"
              /\ error' = r.error
    /\ UNCHANGED <<current_file, previous_file, current_positions,
                   previous_positions, merged, adjustments, pdfVars>>

----------------------------------------------------------------------------
(* Actions of merge_pdfs *)

MergeLoop ==
    /\ mpc = "loop"
    /\ idx <= Len(pdf_files)
    /\ LET r == merge_iteration(pdf_files[idx], merger, fs_exists, fs_valid) IN
       /\ mpc' = r.mpc
       /\ merger' = r.merger
       /\ result' = r.result
       /\ idx' = IF r.mpc = "loop" THEN idx + 1 ELSE idx
    /\ UNCHANGED <<pdf_files, fs_exists, fs_valid, write_ok, output_file,
                   journalVars>>

MergeWrite ==
    /\ mpc = "loop"
    /\ idx > Len(pdf_files)
    /\ IF write_ok
       THEN /\ output_file' = Some(merger)
            /\ result' = "True"
       ELSE /\ output_file' = output_file
            /\ result' = "False"
    /\ mpc' = "done"
    /\ UNCHANGED <<pdf_files, fs_exists, fs_valid, write_ok, idx, merger,
                   journalVars>>

----------------------------------------------------------------------------
(* Specifications *)

Next == LoadCurrent \/ LoadPrevious \/ CalculateAdjustments \/ GenerateJournalEntries

NextEntries == GenerateJournalEntries

NextPdf == MergeLoop \/ MergeWrite

Spec == Init /\ [][Next]_vars

SpecSchema == InitSchema /\ [][Next]_vars

SpecEntries == InitEntries /\ [][NextEntries]_vars

SpecPdf == InitPdf /\ [][NextPdf]_vars

----------------------------------------------------------------------------
(* Vocabulary of the properties, stated on the snapshots themselves *)

AllKeys == {KeyOrder[i] : i \in 1..Len(KeyOrder)}

Calculated == pc \in {"journal", "done"}

Cur == current_positions
Prev == previous_positions[1]

RowKey(r) == <<r.security_id, r.account>>

UniqueKeys(df) ==
    \A i, j \in 1..Len(df.rows) : i # j => RowKey(df.rows[i]) # RowKey(df.rows[j])

KeysIn(df) == {RowKey(df.rows[i]) : i \in 1..Len(df.rows)}

\* quantity and value a snapshot holds for a key, zero when it has none
QuantityAt(df, k) ==
    IF k \in KeysIn(df)
    THEN df.rows[CHOOSE i \in 1..Len(df.rows) : RowKey(df.rows[i]) = k].quantity
    ELSE 0
ValueAt(df, k) ==
    IF k \in KeysIn(df)
    THEN df.rows[CHOOSE i \in 1..Len(df.rows) : RowKey(df.rows[i]) = k].value
    ELSE 0

DeltaQ(k) == QuantityAt(Cur, k) - QuantityAt(Prev, k)
DeltaV(k) == ValueAt(Cur, k) - ValueAt(Prev, k)

WithPreviousUnique ==
    /\ previous_positions # None
    /\ UniqueKeys(Cur)
    /\ UniqueKeys(Prev)

IndicesAt(rows, k) == {i \in 1..Len(rows) : RowKey(rows[i]) = k}

\* positions of the change records whose quantity_change is not zero
NonZero(rows) == {i \in 1..Len(rows) : rows[i].quantity_change # 0}

\* place in the journal of the entry of change record i
Place(rows, i) == Cardinality({j \in NonZero(rows) : j <= i})

IsMagnitudeOf(m, n) == m >= 0 /\ (m = n \/ m = 0 - n)

----------------------------------------------------------------------------
(* C1: with a previous snapshot and unique keys, the merged frame holds     *)
(* exactly one row per key of the union of the two snapshots, and its      *)
(* quantity_change and value_change are current minus previous, a missing  *)
(* side counting as zero.                                                  *)
C1_DeltasOverUnionOfKeys ==
    (Calculated /\ WithPreviousUnique) =>
        LET U == KeysIn(Cur) \cup KeysIn(Prev) IN
        /\ Len(merged.rows) = Cardinality(U)
        /\ \A k \in U :
             \E i \in 1..Len(merged.rows) :
                /\ RowKey(merged.rows[i]) = k
                /\ merged.rows[i].quantity_change = DeltaQ(k)
                /\ merged.rows[i].value_change = DeltaV(k)

C1_Witness ==
    /\ Calculated
    /\ WithPreviousUnique
    /\ \E k \in KeysIn(Prev) \ KeysIn(Cur) :
         /\ QuantityAt(Prev, k) > 0
         /\ ValueAt(Prev, k) > 0
         /\ \E i \in 1..Len(merged.rows) :
               /\ RowKey(merged.rows[i]) = k
               /\ merged.rows[i].quantity_change < 0
               /\ merged.rows[i].value_change < 0
    /\ KeysIn(Cur) \ KeysIn(Prev) # {}

(* C2: with a previous snapshot and unique keys, a key has a ChangeRecord  *)
(* exactly when one of its two deltas is not zero, and then exactly one.   *)
C2_RecordIffSomeDeltaNonZero ==
    (Calculated /\ WithPreviousUnique) =>
        \A k \in AllKeys :
            Cardinality(IndicesAt(adjustments.rows, k)) =
                IF DeltaQ(k) # 0 \/ DeltaV(k) # 0 THEN 1 ELSE 0

C2_Witness ==
    /\ Calculated
    /\ WithPreviousUnique
    /\ \E k \in KeysIn(Cur) \cap KeysIn(Prev) :
         /\ QuantityAt(Cur, k) > 0
         /\ DeltaQ(k) = 0
         /\ DeltaV(k) = 0
         /\ IndicesAt(adjustments.rows, k) = {}
    /\ \E k \in AllKeys :
         /\ DeltaQ(k) = 0
         /\ DeltaV(k) # 0
         /\ IndicesAt(adjustments.rows, k) # {}

(* C3: without a previous snapshot, the adjustments are the records of the *)
(* current snapshot, one for one and none left out, each with              *)
(* quantity_change = quantity and value_change = value.                    *)
C3_NoPreviousEveryRecord ==
    (Calculated /\ previous_positions = None) =>
        /\ Len(adjustments.rows) = Len(Cur.rows)
        /\ \A i \in 1..Len(Cur.rows) :
             /\ RowKey(adjustments.rows[i]) = RowKey(Cur.rows[i])
             /\ adjustments.rows[i].quantity_change = Cur.rows[i].quantity
             /\ adjustments.rows[i].value_change = Cur.rows[i].value

C3_Witness ==
    /\ Calculated
    /\ previous_positions = None
    /\ \E i, j \in 1..Len(Cur.rows) :
         /\ Cur.rows[i].quantity = 0
         /\ Cur.rows[i].value = 0
         /\ adjustments.rows[i].quantity_change = 0
         /\ Cur.rows[j].quantity > 0

(* C4: the sign of quantity_change alone chooses the accounts and the      *)
(* description of the entry of a ChangeRecord; its quantity and amount are *)
(* the magnitudes of quantity_change and value_change.                     *)
C4_SignOfQuantityChoosesAccounts ==
    pc = "done" =>
        \A i \in NonZero(adjustments.rows) :
            LET r == adjustments.rows[i]
                p == Place(adjustments.rows, i)
            IN  /\ p <= Len(journal)
                /\ journal[p].security_id = r.security_id
                /\ journal[p].account = r.account
                /\ IsMagnitudeOf(journal[p].quantity, r.quantity_change)
                /\ IsMagnitudeOf(journal[p].amount, r.value_change)
                /\ r.quantity_change > 0 =>
                     /\ journal[p].debit_account = "Securities Borrowed"
                     /\ journal[p].credit_account = "Payable for Securities"
                     /\ journal[p].description = "Borrow securities " \o r.security_id
                /\ r.quantity_change < 0 =>
                     /\ journal[p].debit_account = "Payable for Securities"
                     /\ journal[p].credit_account = "Securities Borrowed"
                     /\ journal[p].description = "Return securities " \o r.security_id

C4_Witness ==
    /\ pc = "done"
    /\ Len(journal) = 2
    /\ \E i, j \in 1..Len(adjustments.rows) :
         /\ adjustments.rows[i].quantity_change > 0
         /\ adjustments.rows[i].value_change < 0
         /\ adjustments.rows[j].quantity_change < 0
         /\ adjustments.rows[j].value_change > 0

(* C5: the journal is the list of ChangeRecords restricted to those with a *)
(* quantity_change other than zero, one entry each, in the order of the    *)
(* input; a record with quantity_change zero gives no entry.               *)
C5_OneEntryPerNonZeroQuantityInOrder ==
    pc = "done" =>
        LET kept == SelectSeq(adjustments.rows, LAMBDA r : r.quantity_change # 0) IN
        /\ Len(journal) = Cardinality(NonZero(adjustments.rows))
        /\ Len(journal) = Len(kept)
        /\ \A p \in 1..Len(kept) :
             /\ RowKey(journal[p]) = RowKey(kept[p])
             /\ IsMagnitudeOf(journal[p].amount, kept[p].value_change)

C5_Witness ==
    /\ pc = "done"
    /\ Len(adjustments.rows) = 2
    /\ adjustments.rows[1].quantity_change = 0
    /\ adjustments.rows[1].value_change # 0
    /\ adjustments.rows[2].quantity_change # 0
    /\ Len(journal) = 1
    /\ RowKey(journal[1]) = RowKey(adjustments.rows[2])
    /\ RowKey(adjustments.rows[1]) # RowKey(adjustments.rows[2])

(* C6: every journal entry has two different accounts, the two of the      *)
(* program, and a quantity and an amount that are not negative.            *)
C6_EntriesAreMagnitudes ==
    \A p \in 1..Len(journal) :
        /\ journal[p].debit_account # journal[p].credit_account
        /\ {journal[p].debit_account, journal[p].credit_account} =
             {"Securities Borrowed", "Payable for Securities"}
        /\ journal[p].quantity >= 0
        /\ journal[p].amount >= 0

C6_Witness ==
    /\ pc = "done"
    /\ \E p \in 1..Len(journal) :
         /\ journal[p].debit_account = "Payable for Securities"
         /\ journal[p].amount > 0
    /\ \E i \in 1..Len(adjustments.rows) :
         /\ adjustments.rows[i].quantity_change < 0
         /\ adjustments.rows[i].value_change < 0

(* C7: end to end with a previous snapshot and unique keys, a key gets one *)
(* Borrow entry when its quantity rose, one Return entry when it fell and  *)
(* no entry when it is unchanged; the entry holds the absolute differences *)
(* of the quantities and of the values.                                    *)
C7_EndToEndPerKey ==
    (pc = "done" /\ WithPreviousUnique) =>
        \A k \in AllKeys :
            LET at == IndicesAt(journal, k) IN
            IF DeltaQ(k) = 0
            THEN at = {}
            ELSE /\ Cardinality(at) = 1
                 /\ \A p \in at :
                      /\ IsMagnitudeOf(journal[p].quantity, DeltaQ(k))
                      /\ IsMagnitudeOf(journal[p].amount, DeltaV(k))
                      /\ DeltaQ(k) > 0 =>
                           /\ journal[p].debit_account = "Securities Borrowed"
                           /\ journal[p].credit_account = "Payable for Securities"
                           /\ journal[p].description = "Borrow securities " \o k[1]
                      /\ DeltaQ(k) < 0 =>
                           /\ journal[p].debit_account = "Payable for Securities"
                           /\ journal[p].credit_account = "Securities Borrowed"
                           /\ journal[p].description = "Return securities " \o k[1]

C7_Witness ==
    /\ pc = "done"
    /\ WithPreviousUnique
    /\ \E k \in KeysIn(Cur) :
         /\ DeltaQ(k) > 0
         /\ DeltaV(k) > 0
         /\ \E p \in IndicesAt(journal, k) :
               journal[p].description = "Borrow securities " \o k[1]
    /\ \E k \in KeysIn(Prev) :
         /\ DeltaQ(k) < 0
         /\ \E p \in IndicesAt(journal, k) :
               journal[p].description = "Return securities " \o k[1]
    /\ \E k \in AllKeys :
         /\ DeltaQ(k) = 0
         /\ DeltaV(k) # 0
         /\ IndicesAt(journal, k) = {}

(* C8: calculate_adjustments on an empty current and an empty previous     *)
(* snapshot returns no ChangeRecord and raises nothing, and                *)
(* generate_journal_entries on an empty change list returns no entry and   *)
(* raises nothing.                                                         *)
C8_EmptyInEmptyOut ==
    [][ /\ (/\ pc = "calculate"
            /\ previous_positions # None
            /\ Cur.rows = <<>>
            /\ Prev.rows = <<>>)
           => (pc' = "journal" /\ error' = "None" /\ adjustments'.rows = <<>>)
        /\ (pc = "journal" /\ adjustments.rows = <<>>)
           => (pc' = "done" /\ error' = "None" /\ journal' = <<>>) ]_vars

C8_Witness ==
    /\ pc = "done"
    /\ previous_positions # None
    /\ Cur.rows = <<>>
    /\ Prev.rows = <<>>
    /\ adjustments.rows = <<>>
    /\ journal = <<>>

(* C9: a snapshot that lacks one of security_id, account, quantity, value  *)
(* is rejected by load_position_data with a SchemaError: the workflow      *)
(* never reaches calculate_adjustments or generate_journal_entries with    *)
(* it, and no change list and no journal entry comes out of it. A file     *)
(* the loader cannot read at all (unsupported suffix, no header line) is   *)
(* rejected before its fields are known and is not counted against the     *)
(* claim.                                                                  *)
LacksRequiredField ==
    \/ ~(RequiredColumns \subseteq current_file.columns)
    \/ /\ previous_file # None
       /\ ~(RequiredColumns \subseteq previous_file[1].columns)

C9_SchemaErrorAtLoader ==
    LacksRequiredField =>
        /\ pc \notin {"calculate", "journal", "done"}
        /\ pc = "error" => error \in {"SchemaError", "ValueError", "EmptyDataError"}
        /\ adjustments.rows = <<>>
        /\ journal = <<>>

\* a file without the security_id column is journalled under the
\* security "UNKNOWN"
C9_JournalledAsUnknown ==
    /\ pc = "done"
    /\ "security_id" \notin current_file.columns
    /\ \E p \in 1..Len(journal) : journal[p].security_id = "UNKNOWN"

(* C10: merge_pdfs returns False and writes no output when a path of       *)
(* pdf_files does not exist, wherever it stands and whatever its           *)
(* extension; when every path exists and no append or write fails it       *)
(* returns True and the output holds the inputs whose suffix is .pdf in    *)
(* any case, in the order given.                                           *)
PdfSuffixed == {<<"a",".","p","d","f">>, <<"b",".","P","D","F">>}

SomeInputMissing == \E i \in 1..Len(pdf_files) : pdf_files[i] \notin fs_exists

NothingFails ==
    /\ \A i \in 1..Len(pdf_files) :
         pdf_files[i] \in PdfSuffixed => pdf_files[i] \in fs_valid
    /\ write_ok

C10_MissingInputFailsElseMergesPdfsInOrder ==
    /\ SomeInputMissing => output_file = None
    /\ (mpc = "done" /\ SomeInputMissing) => result = "False"
    /\ (mpc = "done" /\ ~SomeInputMissing /\ NothingFails) =>
         /\ result = "True"
         /\ output_file = Some(SelectSeq(pdf_files, LAMBDA f : f \in PdfSuffixed))

C10_Witness ==
    /\ mpc = "done"
    /\ result = "False"
    /\ Len(pdf_files) = 3
    /\ pdf_files[1] \in PdfSuffixed
    /\ pdf_files[2] \in PdfSuffixed
    /\ merger = <<pdf_files[1], pdf_files[2]>>
    /\ pdf_files[3] = <<"c",".","t","x","t">>
    /\ pdf_files[3] \notin fs_exists
    /\ output_file = None

\* the other case of C10: every path exists, the upper-case suffix is
\* merged, the text file and the dot-file are skipped
C10_MergedInOrder ==
    /\ mpc = "done"
    /\ result = "True"
    /\ pdf_files = << <<"b",".","P","D","F">>, <<"c",".","t","x","t">>,
                      <<"a",".","p","d","f">> >>
    /\ output_file = Some(<< <<"b",".","P","D","F">>, <<"a",".","p","d","f">> >>)

====
